---- MODULE Spec2Model ----
(***************************************************************************)
(* Model of the exam session controller of                                 *)
(* src/components/exam/ExamClient.tsx: the React component ExamClient, its *)
(* state hooks and refs, the handlers handleSubmit / handleViolation, the  *)
(* loader effect, the timer/listener effect and the click handlers of the  *)
(* rendered buttons and dialogs.                                           *)
(*                                                                         *)
(* One step of the model is one event dispatched by the single-threaded    *)
(* browser event loop (a click, an interval tick, a document event, a      *)
(* timeout, the resolution of the loader) together with the re-render and  *)
(* the effect run that the event causes.                                   *)
(***************************************************************************)
EXTENDS Integers, Sequences, FiniteSets, TLC

\* ---------------------------------------------------------------- bounds
\* EXAM_DURATION is 2 * 60 * 60 in the source (line 21); the countdown is
\* uniform in its start value, the model counts down from a small one.
EXAM_DURATION == 2
\* violation events delivered to a session (the ref itself is unbounded)
MaxViolationCount == 4
\* interval ticks processed once the countdown is at 0
MaxLateTicks == 1

\* ------------------------------------------------------------- constants
MAX_VIOLATIONS == 3

\* ----------------------------------------------------------------- state
VARIABLES
    phase,                  \* "loading" | "exam" | "empty" | "invalid" | "redirected" | "unmounted"
    questions,              \* useState<Question[] | null>: <<>> stands for null
    currentQuestionIndex,   \* 0-based, as in the source
    answers,                \* AnswerSheet: function from the ids that are keys
    markedForReview,        \* MarkedQuestions: array of ids
    timeLeft,
    isSubmitDialogOpen,
    isExitDialogOpen,
    isSubmitting,           \* useRef latch
    violationCount,         \* useRef counter
    isViolationDialogOpen,
    violationMessage,
    fullscreen,             \* document.fullscreenElement is set
    exitRequested,          \* document.exitFullscreen() called, change not yet signalled
    timerActive,            \* the interval of the current effect run is registered
    intervals,              \* intervals registered with setInterval and not cleared
    effectAnswers,          \* answers captured by the handleSubmit of the current effect run
    lastExamData,           \* localStorage["lastExamData"]
    navScheduled,           \* setTimeout(() => router.replace('/results'), 100) calls
    navigations,            \* router.replace('/results') calls
    selectionNavs,          \* router.push('/exams...') calls
    snapshotWrites,         \* localStorage.setItem("lastExamData", ...) calls
    ticks,                  \* interval callbacks processed
    violationEvents,        \* violation events delivered to a listener (history)
    lastOp                  \* per question id: last answer operation (history)

vars == <<phase, questions, currentQuestionIndex, answers, markedForReview,
          timeLeft, isSubmitDialogOpen, isExitDialogOpen, isSubmitting,
          violationCount, isViolationDialogOpen, violationMessage, fullscreen,
          exitRequested, timerActive, effectAnswers, lastExamData,
          navScheduled, navigations, selectionNavs, snapshotWrites, ticks,
          lastOp, intervals, violationEvents>>

sessionVars == <<currentQuestionIndex, answers, markedForReview, lastOp>>
dialogVars == <<isSubmitDialogOpen, isExitDialogOpen>>
violationVars == <<violationCount, isViolationDialogOpen, violationMessage,
                   violationEvents>>
latchVars == <<isSubmitting, lastExamData, navScheduled, snapshotWrites>>
submitVars == <<isSubmitting, exitRequested, lastExamData, navScheduled, snapshotWrites>>
timerVars == <<timeLeft, timerActive, intervals, ticks>>
loadVars == <<phase, questions, selectionNavs>>

\* ------------------------------------------------------------ input data
\* the question papers a load can resolve to (Question[], lines 120-153):
\* ids differ from positions, option lists differ and overlap
Papers ==
    { << [id |-> 11, options |-> <<"A", "B">>] >>,
      << [id |-> 11, options |-> <<"A", "B">>],
         [id |-> 12, options |-> <<"B">>] >> }

QuestionIds == UNION { {p[i].id : i \in 1..Len(p)} : p \in Papers }

EmptySheet == [k \in {} |-> ""]
NoData == [written |-> FALSE, answers |-> EmptySheet, questions |-> <<>>]
StaleData == [written |-> TRUE, answers |-> EmptySheet, questions |-> <<>>]
NoMessage == [cause |-> "", left |-> 0]

Range(s) == {s[i] : i \in 1..Len(s)}

\* ---------------------------------------------------------------- helpers
currentQuestion == questions[currentQuestionIndex + 1]

\* { ...prev, [questionId]: answer }
SpreadSet(prev, questionId, answer) ==
    [k \in (DOMAIN prev) \cup {questionId} |->
        IF k = questionId THEN answer ELSE prev[k]]

\* const n = { ...prev }; delete n[questionId]
SpreadDelete(prev, questionId) ==
    [k \in (DOMAIN prev) \ {questionId} |-> prev[k]]

\* prev.filter(id => id !== questionId)
RECURSIVE Filter(_, _)
Filter(prev, questionId) ==
    IF prev = <<>> THEN <<>>
    ELSE IF Head(prev) = questionId THEN Filter(Tail(prev), questionId)
         ELSE <<Head(prev)>> \o Filter(Tail(prev), questionId)

\* the updater of lines 216-218 without the includes test
ToggleMarkedAppend(prev, questionId) == Append(prev, questionId)

\* prev.includes(id) ? prev.filter(...) : [...prev, id]
ToggleMarked(prev, questionId) ==
    IF questionId \in Range(prev) THEN Filter(prev, questionId)
    ELSE Append(prev, questionId)

Max(a, b) == IF a >= b THEN a ELSE b
Min(a, b) == IF a <= b THEN a ELSE b

\* ------------------------------------------------------------------ Init
Init ==
    /\ phase = "loading"
    /\ questions = <<>>
    /\ currentQuestionIndex = 0
    /\ answers = EmptySheet
    /\ markedForReview = <<>>
    /\ timeLeft = EXAM_DURATION
    /\ isSubmitDialogOpen = FALSE
    /\ isExitDialogOpen = FALSE
    /\ isSubmitting = FALSE
    /\ violationCount = 0
    /\ isViolationDialogOpen = FALSE
    /\ violationMessage = NoMessage
    /\ fullscreen \in BOOLEAN
    /\ exitRequested = FALSE
    /\ timerActive = FALSE
    /\ effectAnswers = EmptySheet
    /\ lastExamData \in {NoData, StaleData}
    /\ navScheduled = 0
    /\ navigations = 0
    /\ selectionNavs = 0
    /\ snapshotWrites = 0
    /\ ticks = 0
    /\ lastOp = [q \in QuestionIds |-> "none"]
    /\ intervals = 0
    /\ violationEvents = 0

\* ----------------------------------------------------------- handleSubmit
\* handleSubmit without the early return of line 73
handleSubmitNoLatch(ans) ==
    /\ isSubmitting' = TRUE
    /\ exitRequested' = fullscreen'
    /\ IF questions # <<>>
       THEN /\ lastExamData' = [written |-> TRUE, answers |-> ans,
                                questions |-> questions]
            /\ snapshotWrites' = snapshotWrites + 1
       ELSE UNCHANGED <<lastExamData, snapshotWrites>>
    /\ navScheduled' = navScheduled + 1

\* a request to leave full screen stays pending while the document is in
\* full screen
exitStillPending == exitRequested' = (exitRequested /\ fullscreen')

\* handleSubmit memoised without `answers` among its dependencies: it keeps
\* the sheet of the first render
handleSubmitStale(ans) ==
    IF isSubmitting
    THEN UNCHANGED latchVars /\ exitStillPending
    ELSE /\ isSubmitting' = TRUE
         /\ exitRequested' = fullscreen'
         /\ IF questions # <<>>
            THEN /\ lastExamData' = [written |-> TRUE, answers |-> EmptySheet,
                                     questions |-> questions]
                 /\ snapshotWrites' = snapshotWrites + 1
            ELSE UNCHANGED <<lastExamData, snapshotWrites>>
         /\ navScheduled' = navScheduled + 1

\* handleSubmit with the test of line 80 inverted: the navigation is
\* scheduled, the snapshot is not written
handleSubmitNoWrite(ans) ==
    IF isSubmitting
    THEN UNCHANGED latchVars /\ exitStillPending
    ELSE /\ isSubmitting' = TRUE
         /\ exitRequested' = fullscreen'
         /\ IF questions = <<>>
            THEN /\ lastExamData' = [written |-> TRUE, answers |-> ans,
                                     questions |-> questions]
                 /\ snapshotWrites' = snapshotWrites + 1
            ELSE UNCHANGED <<lastExamData, snapshotWrites>>
         /\ navScheduled' = navScheduled + 1

\* handleSubmit without the setTimeout of line 90
handleSubmitNoNav(ans) ==
    IF isSubmitting
    THEN UNCHANGED latchVars /\ exitStillPending
    ELSE /\ isSubmitting' = TRUE
         /\ exitRequested' = fullscreen'
         /\ IF questions # <<>>
            THEN /\ lastExamData' = [written |-> TRUE, answers |-> ans,
                                     questions |-> questions]
                 /\ snapshotWrites' = snapshotWrites + 1
            ELSE UNCHANGED <<lastExamData, snapshotWrites>>
         /\ UNCHANGED navScheduled

\* lines 72-92; ans is the `answers` of the render whose closure is called,
\* fullscreen' is document.fullscreenElement when the handler runs
handleSubmit(ans) ==
    IF isSubmitting
    THEN UNCHANGED latchVars /\ exitStillPending
    ELSE /\ isSubmitting' = TRUE
         /\ exitRequested' = fullscreen'
         /\ IF questions # <<>>
            THEN /\ lastExamData' = [written |-> TRUE, answers |-> ans,
                                     questions |-> questions]
                 /\ snapshotWrites' = snapshotWrites + 1
            ELSE UNCHANGED <<lastExamData, snapshotWrites>>
         /\ navScheduled' = navScheduled + 1

\* -------------------------------------------------------- handleViolation
\* handleViolation comparing with > instead of >= at line 96
handleViolationStrict(message) ==
    /\ violationCount' = violationCount + 1
    /\ IF violationCount + 1 > MAX_VIOLATIONS
       THEN /\ handleSubmit(effectAnswers)
            /\ UNCHANGED <<isViolationDialogOpen, violationMessage>>
       ELSE /\ violationMessage' =
                  [cause |-> message, left |-> MAX_VIOLATIONS - (violationCount + 1)]
            /\ isViolationDialogOpen' = TRUE
            /\ UNCHANGED latchVars
            /\ exitStillPending

\* handleViolation computing the warnings left from the count before the
\* increment of line 95
handleViolationStaleLeft(message) ==
    /\ violationCount' = violationCount + 1
    /\ IF violationCount + 1 >= MAX_VIOLATIONS
       THEN /\ handleSubmit(effectAnswers)
            /\ UNCHANGED <<isViolationDialogOpen, violationMessage>>
       ELSE /\ violationMessage' =
                  [cause |-> message, left |-> MAX_VIOLATIONS - violationCount]
            /\ isViolationDialogOpen' = TRUE
            /\ UNCHANGED latchVars
            /\ exitStillPending

\* handleViolation returning while a warning dialog is open
handleViolationDebounced(message) ==
    IF isViolationDialogOpen
    THEN /\ UNCHANGED <<violationCount, isViolationDialogOpen, violationMessage,
                        latchVars>>
         /\ exitStillPending
    ELSE /\ violationCount' = violationCount + 1
         /\ IF violationCount + 1 >= MAX_VIOLATIONS
            THEN /\ handleSubmit(effectAnswers)
                 /\ UNCHANGED <<isViolationDialogOpen, violationMessage>>
            ELSE /\ violationMessage' =
                       [cause |-> message,
                        left |-> MAX_VIOLATIONS - (violationCount + 1)]
                 /\ isViolationDialogOpen' = TRUE
                 /\ UNCHANGED latchVars
                 /\ exitStillPending

\* lines 94-108; the ref is incremented first, then compared
handleViolation(message) ==
    /\ violationCount' = violationCount + 1
    /\ IF violationCount + 1 >= MAX_VIOLATIONS
       THEN /\ handleSubmit(effectAnswers)
            /\ UNCHANGED <<isViolationDialogOpen, violationMessage>>
       ELSE /\ violationMessage' =
                  [cause |-> message, left |-> MAX_VIOLATIONS - (violationCount + 1)]
            /\ isViolationDialogOpen' = TRUE
            /\ UNCHANGED latchVars
            /\ exitStillPending

\* ----------------------------------------------------------------- effect
\* lines 174-175 and 201-208: the interval and the two listeners exist from
\* the effect run with questions set until its cleanup at unmount
effectRegistered == phase = "exam"

\* line 177: setInterval
registerInterval(n) == n + 1

\* a cleanup that does not clear the interval
clearIntervalNoop(n) == n

\* lines 180 and 205: clearInterval(timer) of the effect run's own interval,
\* which is a no-op when that interval was cleared before
clearIntervalOf(n) == IF n > 0 THEN n - 1 ELSE 0

\* ------------------------------------------------------------------ load
\* lines 110-172 resolve to a non-empty list: setQuestions, then the effect
\* of lines 174-209 registers the interval and the two listeners
LoadSuccess ==
    /\ phase = "loading"
    /\ questions' \in Papers
    /\ phase' = "exam"
    /\ lastExamData' = NoData
    /\ timerActive' = TRUE
    /\ intervals' = registerInterval(intervals)
    /\ effectAnswers' = answers
    /\ UNCHANGED <<sessionVars, dialogVars, violationVars, fullscreen, timeLeft,
                   ticks, isSubmitting, exitRequested, navScheduled,
                   navigations, selectionNavs, snapshotWrites>>

\* the loader without the length test of line 166: the empty list is stored
\* and, being an array, passes the guards of lines 175 and 235
LoadEmptyStored ==
    /\ phase = "loading"
    /\ phase' = "exam"
    /\ lastExamData' = NoData
    /\ timerActive' = TRUE
    /\ intervals' = registerInterval(intervals)
    /\ UNCHANGED <<questions, sessionVars, dialogVars, violationVars, fullscreen,
                   timeLeft, ticks, effectAnswers, isSubmitting, exitRequested,
                   navScheduled, navigations, selectionNavs, snapshotWrites>>

\* lines 166-168: an empty list is not stored, questions stays null
LoadEmpty ==
    /\ phase = "loading"
    /\ phase' = "empty"
    /\ lastExamData' = NoData
    /\ UNCHANGED <<questions, sessionVars, dialogVars, violationVars, fullscreen,
                   timerVars, effectAnswers, isSubmitting, exitRequested,
                   navScheduled, navigations, selectionNavs, snapshotWrites>>

\* lines 125 and 137-139, 166: JSON.parse of the stored string throws, or the
\* stored bundle has no questions array; nothing catches it in these two
\* branches, the promise of loadQuestions is rejected and questions stays null
LoadInvalid ==
    /\ phase = "loading"
    /\ phase' = "invalid"
    /\ lastExamData' = NoData
    /\ UNCHANGED <<questions, sessionVars, dialogVars, violationVars, fullscreen,
                   timerVars, effectAnswers, isSubmitting, exitRequested,
                   navScheduled, navigations, selectionNavs, snapshotWrites>>

\* lines 129-133, 140-144, 154-159, 160-164: toast, router.push, return
LoadFailure ==
    /\ phase = "loading"
    /\ phase' = "redirected"
    /\ lastExamData' = NoData
    /\ selectionNavs' = selectionNavs + 1
    /\ UNCHANGED <<questions, sessionVars, dialogVars, violationVars, fullscreen,
                   timerVars, effectAnswers, isSubmitting, exitRequested,
                   navScheduled, navigations, snapshotWrites>>

\* ----------------------------------------------------------------- timer
\* the updater without the floor of lines 179-183
tickUpdaterNoFloor(prevTime) == prevTime - 1

\* lines 178-186, the value returned by the setTimeLeft updater
tickUpdater(prevTime) == IF prevTime <= 1 THEN 0 ELSE prevTime - 1

\* the expiry branch taken one tick late (prevTime <= 0)
tickExpiresLate(prevTime) == prevTime <= 0

\* line 179, the branch that clears the interval and submits
tickExpires(prevTime) == prevTime <= 1

\* lines 177-187: one callback of the interval registered by the effect
Tick ==
    /\ effectRegistered
    /\ fullscreen' = fullscreen
    /\ timerActive
    /\ ticks < EXAM_DURATION + MaxLateTicks
    /\ ticks' = ticks + 1
    /\ timeLeft' = tickUpdater(timeLeft)
    /\ IF tickExpires(timeLeft)
       THEN /\ timerActive' = FALSE
            /\ intervals' = clearIntervalOf(intervals)
            /\ handleSubmit(effectAnswers)
       ELSE UNCHANGED <<timerActive, intervals, submitVars>>
    /\ UNCHANGED <<loadVars, sessionVars, dialogVars, violationVars, effectAnswers, navigations>>

\* ---------------------------------------------------- environment signals
\* lines 189-193: the document leaves full screen (the user, or the exit
\* requested by handleSubmit); the listener exists while the effect is live
FullscreenExited ==
    /\ fullscreen
    /\ fullscreen' = FALSE
    /\ IF effectRegistered
       THEN /\ violationCount < MaxViolationCount
            /\ violationEvents' = violationEvents + 1
            /\ handleViolation("You have exited fullscreen mode")
       ELSE UNCHANGED <<violationVars, latchVars>> /\ exitStillPending
    /\ UNCHANGED <<loadVars, sessionVars, dialogVars, timerVars,
                   effectAnswers, navigations>>

\* lines 195-199: visibilitychange; the handler acts when the tab is hidden
\* and returns when it is shown again
VisibilityChange ==
    /\ fullscreen' = fullscreen
    /\ \E visibilityState \in {"hidden", "visible"} :
          IF effectRegistered /\ visibilityState = "hidden"
          THEN /\ violationCount < MaxViolationCount
               /\ violationEvents' = violationEvents + 1
               /\ handleViolation("You have switched to another tab or window")
          ELSE UNCHANGED <<violationVars, submitVars>>
    /\ UNCHANGED <<loadVars, sessionVars, dialogVars, timerVars,
                   effectAnswers, navigations>>

\* ------------------------------------------------------------ user input
\* the radio group rendered from the options of the first question
RadioValuesFirst == Range(questions[1].options)

\* lines 303-305: the values the radio group of the shown question can emit
RadioValues == Range(currentQuestion.options)

\* the updater of line 212 without the spread of prev
handleAnswerSelectReplace(prev, questionId, answer) ==
    [k \in {questionId} |-> answer]

\* line 212
handleAnswerSelect(prev, questionId, answer) == SpreadSet(prev, questionId, answer)

\* lines 298-300 and 211-213; answers changes, so handleSubmit and
\* handleViolation are new and the effect of lines 174-209 runs again
AnswerSelect ==
    /\ phase = "exam"
    /\ \E value \in RadioValues :
          /\ answers' = handleAnswerSelect(answers, currentQuestion.id, value)
          /\ lastOp' = [lastOp EXCEPT ![currentQuestion.id] = value]
    /\ effectAnswers' = answers'
    /\ timerActive' = TRUE
    /\ intervals' = registerInterval(clearIntervalOf(intervals))
    /\ UNCHANGED <<loadVars, currentQuestionIndex, markedForReview, dialogVars,
                   violationVars, submitVars, fullscreen, timeLeft, ticks,
                   navigations>>

\* lines 223-225
clearedAnswers(prev, questionId) == SpreadDelete(prev, questionId)

\* lines 221-227 and 320
ClearResponse ==
    /\ phase = "exam"
    /\ questions # <<>>
    /\ answers' = clearedAnswers(answers, currentQuestion.id)
    /\ lastOp' = [lastOp EXCEPT ![currentQuestion.id] = "clear"]
    /\ effectAnswers' = answers'
    /\ timerActive' = TRUE
    /\ intervals' = registerInterval(clearIntervalOf(intervals))
    /\ UNCHANGED <<loadVars, currentQuestionIndex, markedForReview, dialogVars,
                   violationVars, submitVars, fullscreen, timeLeft, ticks,
                   navigations>>

\* lines 215-219 and 317
MarkForReview ==
    /\ phase = "exam"
    /\ markedForReview' = ToggleMarked(markedForReview, currentQuestion.id)
    /\ UNCHANGED <<loadVars, currentQuestionIndex, answers, lastOp, dialogVars,
                   violationVars, submitVars, fullscreen, timerVars, effectAnswers,
                   navigations>>

\* line 325, the updater of the Prev button
prevIndex(prev) == Max(0, prev - 1)

\* the Next updater without Math.min
nextIndexNoClamp(prev) == prev + 1

\* line 328, the updater of the Next button
nextIndex(prev) == Min(Len(questions) - 1, prev + 1)

\* line 325. The `disabled` attribute only removes clicks at index 0; the
\* handler is modelled for every index.
Prev ==
    /\ phase = "exam"
    /\ currentQuestionIndex' = prevIndex(currentQuestionIndex)
    /\ UNCHANGED <<loadVars, answers, markedForReview, lastOp, dialogVars,
                   violationVars, submitVars, fullscreen, timerVars, effectAnswers,
                   navigations>>

\* line 328, likewise
NextQuestion ==
    /\ phase = "exam"
    /\ currentQuestionIndex' = nextIndex(currentQuestionIndex)
    /\ UNCHANGED <<loadVars, answers, markedForReview, lastOp, dialogVars,
                   violationVars, submitVars, fullscreen, timerVars, effectAnswers,
                   navigations>>

\* ---------------------------------------------------------------- dialogs
\* QuestionPalette is handed setIsSubmitDialogOpen (lines 275, 344)
RequestSubmit ==
    /\ phase = "exam"
    /\ isSubmitDialogOpen' = TRUE
    /\ UNCHANGED <<loadVars, sessionVars, isExitDialogOpen, violationVars,
                   submitVars, fullscreen, timerVars, effectAnswers, navigations>>

\* line 358 and onOpenChange of line 349
CancelSubmit ==
    /\ phase = "exam"
    /\ isSubmitDialogOpen
    /\ isSubmitDialogOpen' = FALSE
    /\ UNCHANGED <<loadVars, sessionVars, isExitDialogOpen, violationVars,
                   submitVars, fullscreen, timerVars, effectAnswers, navigations>>

\* lines 359-363
ConfirmSubmit ==
    /\ phase = "exam"
    /\ fullscreen' = fullscreen
    /\ isSubmitDialogOpen
    /\ isSubmitDialogOpen' = FALSE
    /\ handleSubmit(answers)
    /\ UNCHANGED <<loadVars, sessionVars, isExitDialogOpen, violationVars,
                   timerVars, effectAnswers, navigations>>

\* line 279
RequestExit ==
    /\ phase = "exam"
    /\ isExitDialogOpen' = TRUE
    /\ UNCHANGED <<loadVars, sessionVars, isSubmitDialogOpen, violationVars,
                   submitVars, fullscreen, timerVars, effectAnswers, navigations>>

\* line 379 and onOpenChange of line 370
CancelExit ==
    /\ phase = "exam"
    /\ isExitDialogOpen
    /\ isExitDialogOpen' = FALSE
    /\ UNCHANGED <<loadVars, sessionVars, isSubmitDialogOpen, violationVars,
                   submitVars, fullscreen, timerVars, effectAnswers, navigations>>

\* lines 380-383
ConfirmExit ==
    /\ phase = "exam"
    /\ fullscreen' = fullscreen
    /\ isExitDialogOpen
    /\ isExitDialogOpen' = FALSE
    /\ handleSubmit(answers)
    /\ UNCHANGED <<loadVars, sessionVars, isSubmitDialogOpen, violationVars,
                   timerVars, effectAnswers, navigations>>

\* an acknowledgment that also resets the violation counter
AcknowledgeViolationReset ==
    /\ phase = "exam"
    /\ isViolationDialogOpen
    /\ isViolationDialogOpen' = FALSE
    /\ violationCount' = 0
    /\ fullscreen' \in {fullscreen, TRUE}
    /\ UNCHANGED <<loadVars, sessionVars, dialogVars, violationMessage,
                   violationEvents, submitVars, timerVars, effectAnswers,
                   navigations>>

\* lines 404-407 and 229-233: close the dialog, request full screen; the
\* platform grants the request or refuses it
AcknowledgeViolation ==
    /\ phase = "exam"
    /\ isViolationDialogOpen
    /\ isViolationDialogOpen' = FALSE
    /\ fullscreen' \in {fullscreen, TRUE}
    /\ UNCHANGED <<loadVars, sessionVars, dialogVars, violationCount,
                   violationMessage, violationEvents, submitVars, timerVars,
                   effectAnswers, navigations>>

\* ------------------------------------------------------------- navigation
\* line 90 and lines 204-208: the timeout fires, router.replace('/results')
\* replaces the component and the cleanup of the effect clears the interval
\* and removes the listeners
FireNavigation ==
    /\ navigations < navScheduled
    /\ navigations' = navigations + 1
    /\ phase' = IF phase = "exam" THEN "unmounted" ELSE phase
    /\ timerActive' = FALSE
    /\ intervals' = clearIntervalOf(intervals)
    /\ UNCHANGED <<questions, selectionNavs, sessionVars, dialogVars,
                   violationVars, submitVars, fullscreen, timeLeft, ticks,
                   effectAnswers>>

\* lines 204-208: the user leaves the exam route (back, another link) while
\* the session is shown; the component unmounts and the cleanup runs
NavigateAway ==
    /\ phase = "exam"
    /\ phase' = "unmounted"
    /\ timerActive' = FALSE
    /\ intervals' = clearIntervalOf(intervals)
    /\ UNCHANGED <<questions, selectionNavs, sessionVars, dialogVars,
                   violationVars, submitVars, fullscreen, timeLeft, ticks,
                   effectAnswers, navigations>>

Next ==
    \/ LoadSuccess
    \/ LoadEmpty
    \/ LoadInvalid
    \/ LoadFailure
    \/ Tick
    \/ FullscreenExited
    \/ VisibilityChange
    \/ AnswerSelect
    \/ ClearResponse
    \/ MarkForReview
    \/ Prev
    \/ NextQuestion
    \/ RequestSubmit
    \/ CancelSubmit
    \/ ConfirmSubmit
    \/ RequestExit
    \/ CancelExit
    \/ ConfirmExit
    \/ AcknowledgeViolation
    \/ FireNavigation
    \/ NavigateAway

Spec == Init /\ [][Next]_vars

\* the registered interval keeps firing (line 177, every 1000 ms) and the
\* timeout of line 90, never cancelled, fires once scheduled (after 100 ms);
\* nothing is assumed of the user or of the environment signals.  An answer
\* change re-registers the interval (lines 174-209) and so restarts its
\* period, which Tick does not count: WF_vars(Tick) takes the ticks to keep
\* being delivered across re-registrations
FairSpec ==
    /\ Init
    /\ [][Next]_vars
    /\ WF_vars(Tick)
    /\ WF_vars(FireNavigation)

\* ================================================================ claims
SubmitTriggersSeen == timeLeft = 0 /\ violationCount >= MAX_VIOLATIONS

\* C1: submission is idempotent. Whatever submit triggers occur (confirm
\* submit, confirm exit, timer expiry, violation threshold) and however they
\* interleave, the snapshot is written at most once and the navigation to the
\* results is scheduled at most once, both exactly once as soon as the latch
\* is set, and a step taken with the latch set changes neither the latch, the
\* stored snapshot, the write count nor the scheduled navigations.
C1_SubmitIdempotent ==
    [][ /\ snapshotWrites' <= 1
        /\ navScheduled' <= 1
        /\ (isSubmitting' => snapshotWrites' = 1 /\ navScheduled' = 1)
        /\ (isSubmitting =>
              /\ isSubmitting'
              /\ snapshotWrites' = snapshotWrites
              /\ navScheduled' = navScheduled
              /\ lastExamData' = lastExamData) ]_vars

\* C1 witness: the timer has expired and the violation threshold was reached
\* (two submit calls at least), one snapshot and one navigation
C1_Witness ==
    SubmitTriggersSeen /\ snapshotWrites = 1 /\ navScheduled = 1

\* C2 (as claimed): once the latch is set, no step changes answers,
\* markedForReview or currentQuestionIndex.
C2_FrozenAfterSubmit ==
    [][ isSubmitting =>
          /\ answers' = answers
          /\ markedForReview' = markedForReview
          /\ currentQuestionIndex' = currentQuestionIndex ]_vars

\* C3 (as claimed): a violation event arriving with the latch set neither
\* increments the violation count nor opens or rewrites the warning dialog.
C3_ViolationIgnoredAfterSubmit ==
    [][ isSubmitting =>
          /\ violationCount' = violationCount
          /\ (isViolationDialogOpen' => isViolationDialogOpen)
          /\ violationMessage' = violationMessage ]_vars

\* C4: the violation count never decreases; the violation event that takes
\* the count to MAX_VIOLATIONS leaves the session submitted with exactly one
\* snapshot and one scheduled navigation; that event and every later violation
\* event leave the warning dialog and its message as they were.
C4_ThresholdSubmits ==
    [][ /\ violationCount' >= violationCount
        /\ (violationCount < MAX_VIOLATIONS /\ violationCount' >= MAX_VIOLATIONS =>
              isSubmitting' /\ snapshotWrites' = 1 /\ navScheduled' = 1)
        /\ (violationCount' > violationCount /\ violationCount' >= MAX_VIOLATIONS =>
              /\ isViolationDialogOpen' = isViolationDialogOpen
              /\ violationMessage' = violationMessage
              /\ snapshotWrites' = 1) ]_vars

\* C4 witness: a violation event arrived after the one that reached the
\* threshold, the timer had not expired, one snapshot
C4_Witness ==
    /\ violationCount > MAX_VIOLATIONS
    /\ timeLeft = EXAM_DURATION
    /\ snapshotWrites = 1

\* C5: after exactly EXAM_DURATION ticks timeLeft is 0 and exactly one
\* snapshot has been written; a tick that leaves timeLeft above 0 does not
\* set the latch; a tick taken with the latch already set writes nothing.
C5_ExpirySubmitsOnce ==
    [][ /\ (ticks' = EXAM_DURATION =>
              timeLeft' = 0 /\ isSubmitting' /\ snapshotWrites' = 1)
        /\ (ticks' # ticks /\ timeLeft' > 0 => isSubmitting' = isSubmitting)
        /\ (ticks' # ticks /\ isSubmitting =>
              snapshotWrites' = snapshotWrites /\ lastExamData' = lastExamData) ]_vars

\* C5 witness: EXAM_DURATION ticks processed, no violation counted, one snapshot
C5_Witness ==
    /\ ticks = EXAM_DURATION
    /\ timeLeft = 0
    /\ violationCount = 0
    /\ snapshotWrites = 1

\* C6: timeLeft stays within 0..EXAM_DURATION, no step increases it, a tick
\* processed while it is above 0 lowers it by exactly 1, and once 0 it stays 0.
C6_TimeLeftRange ==
    [][ /\ timeLeft' \in 0..EXAM_DURATION
        /\ timeLeft' <= timeLeft
        /\ (ticks' # ticks /\ timeLeft > 0 => timeLeft' = timeLeft - 1)
        /\ (timeLeft = 0 => timeLeft' = 0) ]_vars

\* C6 witness: a tick was processed with timeLeft already 0
C6_Witness == timeLeft = 0 /\ ticks > EXAM_DURATION

\* C7 (as claimed): once timeLeft is 0 no further tick is processed.
C7_ExpiredTerminal ==
    [][ timeLeft = 0 => ticks' = ticks ]_vars

\* C8: in a created session currentQuestionIndex is a valid position of the
\* question list, whatever Prev / Next steps were taken.
C8_IndexInRange ==
    questions # <<>> =>
        currentQuestionIndex \in 0..(Len(questions) - 1)

\* C8 witness: Next has moved to the last question of a two-question paper
C8_Witness ==
    Len(questions) = 2 /\ currentQuestionIndex = Len(questions) - 1

\* C9: before submission the answer sheet reflects the last operation per
\* question id: the selected value if it was a select, no key if it was a
\* clear or if there was none.
C9_LastOperationWins ==
    ~isSubmitting =>
        \A id \in QuestionIds :
            IF lastOp[id] \in {"none", "clear"}
            THEN id \notin DOMAIN answers
            ELSE id \in DOMAIN answers /\ answers[id] = lastOp[id]

\* C9 witness: before submission, question 11 cleared last and question 12
\* selected last
C9_Witness ==
    /\ ~isSubmitting
    /\ lastOp[11] = "clear"
    /\ lastOp[12] = "B"
    /\ DOMAIN answers = {12}

C11_WarningsLeft ==
    [][ ~isSubmitting /\ violationEvents' # violationEvents =>
          IF violationCount' < MAX_VIOLATIONS
          THEN /\ isViolationDialogOpen'
               /\ violationMessage'.left = MAX_VIOLATIONS - violationCount'
               /\ violationMessage'.left \in 1..(MAX_VIOLATIONS - 1)
               /\ violationMessage'.cause # ""
          ELSE /\ isViolationDialogOpen' = isViolationDialogOpen
               /\ violationMessage' = violationMessage
               /\ isSubmitting' ]_vars

\* C11 witness: the second violation announced one warning left, the third
\* submitted and left that message in place
C11_Witness ==
    /\ violationCount = MAX_VIOLATIONS
    /\ violationEvents = MAX_VIOLATIONS
    /\ violationMessage.left = 1
    /\ isSubmitting
    /\ timeLeft = EXAM_DURATION

\* C12: the step that sets the latch stores a snapshot holding exactly the
\* answer sheet and the questions of that moment, every id whose last
\* operation was a select carries that value in it and no other id is in it,
\* and no later step changes the stored snapshot.
C12_SnapshotIsCurrent ==
    [][ /\ (~isSubmitting /\ isSubmitting' =>
              /\ lastExamData' = [written |-> TRUE, answers |-> answers,
                                  questions |-> questions]
              /\ \A id \in QuestionIds :
                    IF lastOp[id] \in {"none", "clear"}
                    THEN id \notin DOMAIN lastExamData'.answers
                    ELSE /\ id \in DOMAIN lastExamData'.answers
                         /\ lastExamData'.answers[id] = lastOp[id])
        /\ (isSubmitting => lastExamData' = lastExamData) ]_vars

\* C12 witness: a snapshot with both questions answered was stored by the
\* violation threshold
C12_Witness ==
    /\ lastExamData.written
    /\ snapshotWrites = 1
    /\ DOMAIN lastExamData.answers = {11, 12}
    /\ violationCount = MAX_VIOLATIONS
    /\ timeLeft = EXAM_DURATION

\* C13: a snapshot has been written only with the latch set, a navigation to
\* the results is scheduled only with the snapshot written, and the
\* navigation is performed only after it was scheduled and with the snapshot
\* of this session in the slot.
C13_SubmitOrder ==
    /\ (snapshotWrites > 0 => isSubmitting)
    /\ (isSubmitting => snapshotWrites = 1 /\ navScheduled = 1)
    /\ (navScheduled > 0 =>
          snapshotWrites > 0 /\ lastExamData.written /\ lastExamData.questions = questions)
    /\ navigations <= navScheduled
    /\ (navigations > 0 => lastExamData.written /\ lastExamData.questions = questions)

\* C13 witness: the navigation to the results was performed
C13_Witness ==
    navigations = 1 /\ snapshotWrites = 1 /\ lastExamData.questions # <<>>

\* C14 (as claimed): after a failed source resolution (not found, or invalid)
\* no session exists (questions unset, no interval, no tick, no violation
\* counted) and exactly one navigation to a selection screen was issued; an
\* interval, a tick or a counted violation exists only with questions loaded.
C14_FailedLoadRedirects ==
    /\ (phase \in {"redirected", "invalid"} =>
          /\ questions = <<>>
          /\ ~timerActive /\ intervals = 0 /\ ticks = 0
          /\ violationCount = 0 /\ violationEvents = 0
          /\ selectionNavs = 1)
    /\ (timerActive \/ ticks > 0 \/ violationCount > 0 => questions # <<>>)
    /\ selectionNavs <= 1

\* C15: the violation count equals the number of violation events delivered,
\* a step that closes the warning dialog leaves the count unchanged, and the
\* MAX_VIOLATIONS-th event leaves the session submitted.
C15_AcknowledgeKeepsCount ==
    [][ /\ violationCount' = violationEvents'
        /\ (isViolationDialogOpen /\ ~isViolationDialogOpen' =>
              violationCount' = violationCount)
        /\ (violationEvents' # violationEvents /\ violationEvents' = MAX_VIOLATIONS =>
              isSubmitting') ]_vars

\* C15 witness: threshold reached, the dialog was closed and full screen
\* re-entered by an acknowledgment
C15_Witness ==
    /\ violationCount = MAX_VIOLATIONS
    /\ ~isViolationDialogOpen
    /\ fullscreen
    /\ timeLeft = EXAM_DURATION
    /\ isSubmitting

\* set of ids of the marked array after toggling id
ToggledIds(marked, id) ==
    IF id \in Range(marked) THEN Range(marked) \ {id} ELSE Range(marked) \cup {id}

\* C16: before submission, for every question id, toggling twice gives back
\* the set of marked ids and toggling once flips the membership of that id
\* only; a step that changes markedForReview flips the shown question's id.
C16_ToggleInvolution ==
    [][ ~isSubmitting' =>
          /\ \A id \in QuestionIds :
                /\ Range(ToggleMarked(markedForReview', id)) =
                      ToggledIds(markedForReview', id)
                /\ Range(ToggleMarked(ToggleMarked(markedForReview', id), id)) =
                      Range(markedForReview')
          /\ (markedForReview' # markedForReview =>
                Range(markedForReview') =
                   ToggledIds(markedForReview, currentQuestion.id)) ]_vars

\* C16 witness: two ids marked before submission, the first question's last
C16_Witness ==
    ~isSubmitting /\ markedForReview = <<12, 11>>

\* C17: at most one interval is registered at any moment; at teardown none
\* is left; after teardown no step processes a tick, counts a violation,
\* opens a dialog, sets the latch, writes a snapshot or schedules a
\* navigation.
C17_TeardownDeregisters ==
    [][ /\ intervals' <= 1
        /\ (phase' = "unmounted" => intervals' = 0 /\ ~timerActive')
        /\ (phase = "unmounted" =>
              /\ phase' = "unmounted"
              /\ UNCHANGED <<ticks, timeLeft, violationVars, latchVars,
                             sessionVars, dialogVars>>) ]_vars

\* C17 witness: torn down while the countdown was running and below the
\* violation threshold, full screen left afterwards
C17_Witness ==
    /\ phase = "unmounted"
    /\ timeLeft > 0
    /\ violationCount \in 1..(MAX_VIOLATIONS - 1)
    /\ ~fullscreen

\* C18 (as claimed): the violation count stays within 0..MAX_VIOLATIONS.
C18_CountBounded ==
    violationCount \in 0..MAX_VIOLATIONS

\* C19: while unsubmitted, a violation event delivered while the warning
\* dialog is open increments the count by one like any other, and the event
\* that makes MAX_VIOLATIONS leaves the session submitted.
C19_NoDeduplication ==
    [][ ~isSubmitting /\ isViolationDialogOpen /\ violationEvents' # violationEvents =>
          /\ violationCount' = violationCount + 1
          /\ (violationCount' >= MAX_VIOLATIONS => isSubmitting') ]_vars

\* C19 witness: the threshold was reached with the warning dialog still open
C19_Witness ==
    /\ violationCount = MAX_VIOLATIONS
    /\ isViolationDialogOpen
    /\ isSubmitting
    /\ ticks = 0

\* C20: while the exam is shown the question list is non-empty and the shown
\* position is one of its positions; questions are set only in a shown or
\* torn-down session; after a load that resolved to an empty list there is
\* no interval, no tick, no counted violation, no snapshot and no navigation.
C20_NonEmptySession ==
    /\ (phase = "exam" =>
          Len(questions) > 0 /\ (currentQuestionIndex + 1) \in DOMAIN questions)
    /\ (questions # <<>> => phase \in {"exam", "unmounted"})
    /\ (phase = "empty" =>
          /\ questions = <<>>
          /\ ~timerActive /\ intervals = 0 /\ ticks = 0
          /\ violationCount = 0 /\ violationEvents = 0
          /\ snapshotWrites = 0 /\ navScheduled = 0 /\ ~lastExamData.written)

\* C20 witness: an empty load, then the document left full screen
C20_Witness ==
    phase = "empty" /\ ~fullscreen /\ lastExamData = NoData

\* the session is submitted, its snapshot written and the navigation to the
\* results performed
Finished ==
    isSubmitting /\ snapshotWrites = 1 /\ lastExamData.written /\ navigations = 1

\* the user left the exam route before any submission
LeftUnsubmitted == phase = "unmounted" /\ ~isSubmitting

\* C21 (as claimed): with ticks and the scheduled timeout delivered, every
\* created session is eventually submitted, its snapshot written and the
\* navigation to the results performed.
C21_AlwaysTerminates ==
    (phase = "exam") ~> Finished

\* C21 (amended): with ticks and the scheduled timeout delivered, every
\* created session either is left by the user before any submission or is
\* eventually submitted, its snapshot written and the navigation to the
\* results performed (a submitted session is no longer LeftUnsubmitted, so
\* once submitted the navigation is always performed).
C21_TerminatesUnlessLeft ==
    (phase = "exam") ~> (Finished \/ LeftUnsubmitted)

\* C21 witness: the countdown ran out with no violation counted and the
\* navigation to the results replaced the component
C21_Witness ==
    /\ Finished
    /\ phase = "unmounted"
    /\ timeLeft = 0
    /\ violationCount = 0
====
